---- MODULE Spec2Model ----
(***************************************************************************)
(* Everlyn-AR: the bucketed image/video batch sampler and the fault-       *)
(* tolerant dataset of videoAR/data/dataset_image_video.py, and the        *)
(* conditional-sequence construction (forward) and sampling (sample) of    *)
(* OmniTokenizer/lm_transformer.py.                                        *)
(*                                                                         *)
(* The four components do not share state at run time, so each has its own *)
(* specification (SpecSampler, SpecDataset / FairSpecDataset, SpecForward, *)
(* SpecSample); a component that is not running has its position at "off". *)
(***************************************************************************)
EXTENDS Integers, Sequences, FiniteSets, TLC

VARIABLES
    \* ImageVideoDataset.dataset: the annotation entries (shared by the
    \* sampler, which reads their type, and by __getitem__)
    dataset,
    \* ---- ImageVideoSampler
    batch_size, image_batch_size, drop_last,
    bucket,      \* self.bucket: [image |-> seq, video |-> seq]
    spc,         \* position of the __iter__ generator
    drawn,       \* the indices the base sampler has produced so far
    yielded,     \* the batches handed to the consumer so far
    \* ---- ImageVideoDataset.__getitem__
    cache_dir,   \* self.cache_dir: "None" or "set"
    gpc,         \* position of __getitem__
    idx,         \* the local idx of __getitem__
    data_type,   \* the local data_type of __getitem__
    sample,      \* the dict being built / returned
    failures,    \* whether the running call has gone through the except branch
    \* ---- Net2NetTransformer.forward
    fpc, fin, fout,
    \* ---- Net2NetTransformer.sample
    mpc, margs, mx, mk

samplerVars == <<batch_size, image_batch_size, drop_last, bucket, spc, drawn, yielded>>
getitemVars == <<cache_dir, gpc, idx, data_type, sample, failures>>
forwardVars == <<fpc, fin, fout>>
sampleVars  == <<mpc, margs, mx, mk>>
vars == <<dataset, samplerVars, getitemVars, forwardVars, sampleVars>>

(***************************************************************************)
(* Bounds                                                                  *)
(***************************************************************************)
NumEntries == 2      \* len(self.dataset)
MaxDraw    == 4      \* indices drawn from the base sampler, all epochs together
MaxBatch   == 2      \* largest batch_size / image_batch_size tried

Indices == 0 .. (NumEntries - 1)

\* The value of data['type']: "missing" is an entry without the key.
EntryTypes == {"video", "image", "missing"}

\* What happens when the entry's file is opened and decoded.
\*   none    : it loads
\*   decode  : VideoReader / Image.open / get_batch raises (any Exception)
\*   timeout : func_timeout raises FunctionTimedOut
\*   short   : the video has too few frames
VideoFaults == {"none", "decode", "timeout", "short"}
ImageFaults == {"none", "decode"}

Entry(t, f, c) == [type |-> t, fault |-> f, cached |-> c]

(***************************************************************************)
(* ImageVideoSampler                                                       *)
(***************************************************************************)

\* self.dataset.dataset[idx].get('type', 'video'): the wrong default.
ContentTypeDefaultVideo(e) == IF e.type = "missing" THEN "video" ELSE e.type

\* self.dataset.dataset[idx].get('type', 'image')
ContentType(e) == IF e.type = "missing" THEN "image" ELSE e.type

\* The bucket left as it is after the yield.
NotCleared(b) == b

\* del bucket[:]
Cleared(b) == <<>>

\* bucket[:], the copy that is yielded
Copy(b) == b

SamplerOff ==
    /\ batch_size = 0 /\ image_batch_size = 0 /\ drop_last = FALSE
    /\ bucket = [image |-> <<>>, video |-> <<>>]
    /\ spc = "off" /\ drawn = <<>> /\ yielded = <<>>

GetitemOff ==
    /\ cache_dir = "None" /\ gpc = "off" /\ idx = 0 /\ data_type = "image"
    /\ sample = <<>> /\ failures = FALSE

ForwardOff == fpc = "off" /\ fin = <<>> /\ fout = <<>>

SampleOff == mpc = "off" /\ margs = <<>> /\ mx = <<>> /\ mk = 0

\* ImageVideoSampler.__init__
InitSampler ==
    /\ dataset \in [Indices -> {Entry(t, "none", FALSE) : t \in EntryTypes}]
    /\ batch_size \in 1 .. MaxBatch
    /\ image_batch_size \in 1 .. MaxBatch
    /\ drop_last \in BOOLEAN
    /\ bucket = [image |-> <<>>, video |-> <<>>]
    /\ spc = "idle"
    /\ drawn = <<>>
    /\ yielded = <<>>
    /\ GetitemOff /\ ForwardOff /\ SampleOff

\* iter(batch_sampler): the generator is created and runs to the for loop.
\* self.bucket is the object's, so what an earlier pass left in it is kept.
Iter ==
    /\ spc \in {"idle", "exhausted"}
    /\ spc' = "running"
    /\ UNCHANGED <<dataset, batch_size, image_batch_size, drop_last, bucket,
                   drawn, yielded, getitemVars, forwardVars, sampleVars>>

\* One pass of the for loop, up to the yield (or to the end of the body).
SamplerStep(i) ==
    /\ spc = "running"
    /\ Len(drawn) < MaxDraw
    /\ drawn' = Append(drawn, i)
    /\ LET content_type == ContentType(dataset[i])
           b1 == [bucket EXCEPT ![content_type] = Append(@, i)]
       IN  /\ bucket' = b1
           /\ IF Len(b1.video) = batch_size
              THEN /\ yielded' = Append(yielded, [kind |-> "video", batch |-> Copy(b1.video)])
                   /\ spc' = "yield_video"
              ELSE IF Len(b1.image) = image_batch_size
              THEN /\ yielded' = Append(yielded, [kind |-> "image", batch |-> Copy(b1.image)])
                   /\ spc' = "yield_image"
              ELSE /\ yielded' = yielded
                   /\ spc' = "running"
    /\ UNCHANGED <<dataset, batch_size, image_batch_size, drop_last,
                   getitemVars, forwardVars, sampleVars>>

\* The consumer asks for the next batch: the generator resumes after the yield.
Resume ==
    /\ spc \in {"yield_video", "yield_image"}
    /\ bucket' = IF spc = "yield_video"
                 THEN [bucket EXCEPT !.video = Cleared(@)]
                 ELSE [bucket EXCEPT !.image = Cleared(@)]
    /\ spc' = "running"
    /\ UNCHANGED <<dataset, batch_size, image_batch_size, drop_last,
                   drawn, yielded, getitemVars, forwardVars, sampleVars>>

\* The base sampler is exhausted: the for loop ends and __iter__ returns.
Exhausted ==
    /\ spc = "running"
    /\ spc' = "exhausted"
    /\ UNCHANGED <<dataset, batch_size, image_batch_size, drop_last, bucket,
                   drawn, yielded, getitemVars, forwardVars, sampleVars>>

NextSampler ==
    \/ Iter
    \/ \E i \in Indices : SamplerStep(i)
    \/ Resume
    \/ Exhausted

SpecSampler == InitSampler /\ [][NextSampler]_vars

(***************************************************************************)
(* Claims about ImageVideoSampler                                          *)
(***************************************************************************)

\* The content type an entry has for the reader of a batch: a missing
\* 'type' counts as 'image'.
TypeOf(i) == IF dataset[i].type = "video" THEN "video" ELSE "image"

RECURSIVE Flatten(_, _)
\* The batches of kind k among the first n yielded, one after the other.
Flatten(k, n) ==
    IF n = 0 THEN <<>>
    ELSE IF yielded[n].kind = k THEN Flatten(k, n - 1) \o yielded[n].batch
    ELSE Flatten(k, n - 1)

\* The indices of type k drawn so far, in the order drawn.
DrawnOf(k) == SelectSeq(drawn, LAMBDA i : TypeOf(i) = k)

\* The indices of type k that wait in the bucket and were not yielded yet.
\* (While the generator is suspended at a yield, the bucket still holds the
\* batch just yielded; it is cleared when the generator resumes.)
Waiting(k) == IF spc = "yield_" \o k THEN <<>> ELSE bucket[k]

\* C1: every yielded batch is homogeneous: all its indices refer to entries
\* of the same content type (all video or all image, a missing type counting
\* as image), and that type is the kind of the bucket it was taken from.
C1_Homogeneous ==
    \A n \in 1 .. Len(yielded) :
        \A p \in 1 .. Len(yielded[n].batch) :
            TypeOf(yielded[n].batch[p]) = yielded[n].kind

\* A batch of two or more indices was yielded although the base sampler
\* also produced indices of the other content type.
C1_Witness ==
    \E n \in 1 .. Len(yielded) :
        /\ Len(yielded[n].batch) >= 2
        /\ \E d \in 1 .. Len(drawn) : TypeOf(drawn[d]) # yielded[n].kind

C3_DropLastHonoured ==
    spc = "exhausted" =>
        IF drop_last
        THEN \A n \in 1 .. Len(yielded) :
                 Len(yielded[n].batch) =
                     IF yielded[n].kind = "video" THEN batch_size ELSE image_batch_size
        ELSE \A k \in {"video", "image"} : Flatten(k, Len(yielded)) = DrawnOf(k)

(***************************************************************************)
(* ImageVideoDataset.get_batch and __getitem__                             *)
(***************************************************************************)

GetitemEntries ==
    {[type |-> "video", fault |-> f, cached |-> c, label |-> l] :
        f \in VideoFaults, c \in BOOLEAN, l \in BOOLEAN}
    \cup
    {[type |-> t, fault |-> f, cached |-> FALSE, label |-> l] :
        t \in {"image", "missing"}, f \in ImageFaults, l \in BOOLEAN}

\* The exception classes met here. FunctionTimedOut derives from
\* BaseException, the others from Exception.
ExceptionClasses == {"ValueError", "RuntimeError", "OSError", "UnboundLocalError"}

Returns(n, k) == [exc |-> "none", values |-> n, kind |-> k]
Raises(x) == [exc |-> x, values |-> 0, kind |-> "none"]

\* The try around func_timeout: "except FunctionTimedOut: raise ValueError".
ReadFrames(fault) ==
    IF fault = "timeout" THEN "ValueError" ELSE "none"

\* get_batch(idx, data_info): what it returns (how many values, of which
\* kind) or raises.
get_batch(e, cd) ==
    IF ContentType(e) = "video"
    THEN IF cd # "None" /\ e.cached
         THEN Returns(8, "video")               \* the cached latents
         ELSE IF e.fault = "decode" THEN Raises("RuntimeError")   \* VideoReader(...)
         ELSE IF e.fault = "short" THEN Raises("ValueError")      \* No Frames / No Enough Frames
         ELSE IF ReadFrames(e.fault) # "none" THEN Raises(ReadFrames(e.fault))
         ELSE IF cd = "None"
              THEN Raises("UnboundLocalError")  \* vid_cache_path was never bound
              ELSE Returns(8, "video")
    ELSE IF e.fault = "decode" THEN Raises("OSError")             \* Image.open(...)
         ELSE Returns(3, "image")

\* "except ValueError": a handler that is too narrow.
CaughtValueErrorOnly(x) == x = "ValueError"

\* "except Exception"
Caught(x) == x \in ExceptionClasses

SampleKeys == {"pixel_values", "text", "data_type", "idx", "vid_cache_path",
               "text_cache_path", "latent_idx", "text_embedding", "text_emb_masks"}

\* The body of the try in __getitem__, for the current idx.
TryBody(i, wanted) ==
    LET data_info_local == dataset[i % NumEntries]
        data_type_local == ContentType(data_info_local)
        got == get_batch(data_info_local, cache_dir)
    IN  IF data_type_local # wanted THEN Raises("ValueError")
        ELSE IF got.exc # "none" THEN got
        ELSE IF got.values # 8 THEN Raises("ValueError")   \* not enough values to unpack
        ELSE [exc |-> "none", values |-> 8, kind |-> got.kind,
              sample |-> [keys |-> SampleKeys \cup
                                   (IF data_info_local.label THEN {"label"} ELSE {}),
                          idx |-> i, data_type |-> got.kind]]

\* ImageVideoDataset.__init__
InitDataset ==
    /\ dataset \in [Indices -> GetitemEntries]
    /\ cache_dir \in {"None", "set"}
    /\ gpc = "idle"
    /\ idx = 0
    /\ data_type = "image"
    /\ sample = <<>>
    /\ failures = FALSE
    /\ SamplerOff /\ ForwardOff /\ SampleOff

\* dataset[i] is called: the two lines before the loop.
Getitem(i) ==
    /\ gpc \in {"idle", "returned"}
    /\ idx' = i
    /\ data_type' = ContentType(dataset[i % NumEntries])
    /\ sample' = <<>>
    /\ failures' = FALSE
    /\ gpc' = "loop"
    /\ UNCHANGED <<dataset, cache_dir, samplerVars, forwardVars, sampleVars>>

\* A pass of the loop that ends in the break and the return.
AttemptReturn ==
    /\ gpc = "loop"
    /\ LET r == TryBody(idx, data_type)
       IN  /\ r.exc = "none"
           /\ sample' = r.sample
           /\ data_type' = r.kind
    /\ gpc' = "returned"
    /\ UNCHANGED <<dataset, cache_dir, idx, failures,
                   samplerVars, forwardVars, sampleVars>>

\* A pass of the loop that raises: the handler draws j = random.randint(0,
\* self.length - 1), or the exception is not the handler's and leaves
\* __getitem__.
AttemptFail(j) ==
    /\ gpc = "loop"
    /\ LET r == TryBody(idx, data_type)
       IN  /\ r.exc # "none"
           /\ IF Caught(r.exc)
              THEN /\ idx' = j
                   /\ failures' = TRUE
                   /\ gpc' = "loop"
              ELSE /\ gpc' = "raised"
                   /\ UNCHANGED <<idx, failures>>
    /\ sample' = <<>>
    /\ UNCHANGED <<dataset, cache_dir, data_type,
                   samplerVars, forwardVars, sampleVars>>

NextDataset ==
    \/ \E i \in 0 .. NumEntries : Getitem(i)
    \/ AttemptReturn
    \/ \E j \in Indices : AttemptFail(j)

SpecDataset == InitDataset /\ [][NextDataset]_vars

\* random.randint picks every index again and again, and a pass of the loop
\* that can return does.
FairSpecDataset ==
    /\ SpecDataset
    /\ WF_vars(AttemptReturn)
    /\ \A j \in Indices : SF_vars(AttemptFail(j))

(***************************************************************************)
(* Claims about ImageVideoDataset.__getitem__                              *)
(***************************************************************************)

\* C4: __getitem__ is fault-tolerant: no exception leaves it, what it
\* returns is a completely built sample of the entry it loaded last, and a
\* pass of the loop that does not return puts a random index of
\* [0, length-1] in idx and goes round again.
C4_FaultTolerant ==
    /\ [](gpc # "raised")
    /\ [](gpc = "returned" =>
            /\ SampleKeys \subseteq sample.keys
            /\ sample.idx = idx
            /\ sample.data_type = TypeOf(idx % NumEntries)
            /\ ("label" \in sample.keys) = dataset[idx % NumEntries].label)
    /\ [][(gpc = "loop" /\ gpc' # "returned") =>
            (gpc' = "loop" /\ idx' \in 0 .. (NumEntries - 1) /\ failures')]_vars

\* A call that went through the handler has returned the sample of an entry
\* that loads, in a dataset that also holds a video that does not.
C4_Witness ==
    /\ gpc = "returned"
    /\ failures
    /\ dataset[idx % NumEntries].fault = "none"
    /\ \E j \in Indices : dataset[j].type = "video" /\ dataset[j].fault # "none"

\* The file of entry i can be read and decoded without error.
Loadable(i) == dataset[i].fault = "none"

\* C5: __getitem__ terminates: when the dataset holds an entry of the
\* requested content type that loads without error, a running call
\* eventually returns; for images and videos, with and without cache_dir.
C5_Terminates ==
    (gpc = "loop" /\ \E j \in Indices : Loadable(j) /\ TypeOf(j) = data_type)
        ~> (gpc = "returned")

\* The calls the code does serve: a video, with cache_dir set.
VideoWithCacheDirTerminates ==
    (gpc = "loop" /\ cache_dir # "None" /\ data_type = "video"
        /\ \E j \in Indices : Loadable(j) /\ TypeOf(j) = data_type)
        ~> (gpc = "returned")

(***************************************************************************)
(* Net2NetTransformer: __init__, init_cond_stage_from_ckpt, forward        *)
(***************************************************************************)
MaxCondLen == 2      \* longest conditioning sequence tried
MaxVisLen  == 2      \* longest visual token sequence tried
ClassCondDim == 3    \* args.class_cond_dim tried
StftCodes    == 4    \* n_codes of the stft codebook tried

sos_token == 0                     \* the default of __init__
first_stage_vocab_size == 16384    \* init_first_stage_from_ckpt, vtokens
TextVocab == 49408                 \* init_cond_stage_from_ckpt, 'text'

\* init_cond_stage_from_ckpt: the encoder of the conditioning and its
\* vocabulary size.
CondStage(cond_stage_key, be_unconditional) ==
    IF cond_stage_key = "label" /\ ~be_unconditional
    THEN [model |-> "Labelator", vocab |-> ClassCondDim]
    ELSE IF cond_stage_key = "stft"
    THEN [model |-> "vqgan", vocab |-> StftCodes]
    ELSE IF cond_stage_key = "text"
    THEN [model |-> "Identity", vocab |-> TextVocab]
    ELSE [model |-> "SOSProvider", vocab |-> 0]

\* __init__: self.starts_with_sos
StartsWithSos(a) == a.starts_with_sos /\ ~a.unconditional

\* __init__: gpt_vocab_size
GptVocabSize(a) ==
    first_stage_vocab_size + CondStage(a.cond_stage_key, a.unconditional).vocab
        + (IF StartsWithSos(a) THEN 1 ELSE 0)

\* A token of a sequence: where it comes from (src: "sos", "c" or "z"), its
\* place k in its source, its id, and whether the id is a random replacement.
Tok(s, k, id) == [src |-> s, k |-> k, id |-> id, noised |-> FALSE]

\* t + d, elementwise
Shift(t, d) == [n \in 1 .. Len(t) |-> [t[n] EXCEPT !.id = @ + d]]

\* mask * z_indices + (1 - mask) * r_indices; noise[n] = -1 where mask is 1
Mix(z, noise) ==
    [n \in 1 .. Len(z) |->
        IF noise[n] < 0 THEN z[n]
        ELSE [z[n] EXCEPT !.id = noise[n], !.noised = TRUE]]

\* The splice with the prefix one too short where the sos token is added.
SpliceShortPrefix(a, keep_cond, sos, c_indices, a_indices) ==
    IF StartsWithSos(a) /\ (a.p_drop_cond = "None" \/ keep_cond)
    THEN [cz_indices |-> IF a.class_first THEN c_indices \o sos \o a_indices
                         ELSE sos \o c_indices \o a_indices,
          prefix_len |-> Len(c_indices) - 1]
    ELSE [cz_indices |-> c_indices \o a_indices,
          prefix_len |-> Len(c_indices) - 1]

\* forward: cz_indices and prefix_len, branch by branch.
Splice(a, keep_cond, sos, c_indices, a_indices) ==
    IF StartsWithSos(a)
    THEN IF a.p_drop_cond # "None"
         THEN IF keep_cond              \* random.random() > self.p_drop_cond
              THEN [cz_indices |-> IF a.class_first
                                   THEN c_indices \o sos \o a_indices
                                   ELSE sos \o c_indices \o a_indices,
                    prefix_len |-> 1 + Len(c_indices) - 1]
              ELSE [cz_indices |-> c_indices \o a_indices,
                    prefix_len |-> Len(c_indices) - 1]
         ELSE [cz_indices |-> IF a.class_first
                              THEN c_indices \o sos \o a_indices
                              ELSE sos \o c_indices \o a_indices,
               prefix_len |-> 1 + Len(c_indices) - 1]
    ELSE [cz_indices |-> c_indices \o a_indices,
          prefix_len |-> Len(c_indices) - 1]

\* self.transformer(idx): one output per input position; the output at
\* position p is computed from the inputs up to p, the last of which is at.
Transformer(input) == [p \in 1 .. Len(input) |-> [pos |-> p, at |-> input[p]]]

\* forward(x, c): x and c are given by the token ids their encoders produce.
Forward(a, c, z, noise, keep_cond) ==
    LET cond == CondStage(a.cond_stage_key, a.unconditional)
        c0 == IF cond.model = "SOSProvider"
              THEN <<Tok("sos", 1, sos_token)>>         \* encode_to_c
              ELSE [n \in 1 .. Len(c) |-> Tok("c", n, c[n])]
        z0 == [n \in 1 .. Len(z) |-> Tok("z", n, z[n])] \* encode_to_z
        sos == <<Tok("sos", 1, sos_token)>>             \* sos_provider.encode
        c_indices == IF StartsWithSos(a) THEN Shift(c0, 1) ELSE c0
        z_indices == IF StartsWithSos(a) THEN Shift(z0, cond.vocab + 1)
                     ELSE Shift(z0, cond.vocab)
        a_indices == IF a.noisy THEN Mix(z_indices, noise) ELSE z_indices
        sp == Splice(a, keep_cond, sos, c_indices, a_indices)
        input == SubSeq(sp.cz_indices, 1, Len(sp.cz_indices) - 1)
        out == Transformer(input)
        logits == SubSeq(out, sp.prefix_len + 1, Len(out))
    IN  [cz_indices |-> sp.cz_indices,
         prefix_len |-> sp.prefix_len,
         input |-> input,
         logits |-> logits,
         target |-> z_indices,
         vocab |-> GptVocabSize(a),
         status |-> IF Len(logits) = Len(z_indices) THEN "ok" ELSE "AssertionError"]

Args ==
    [cond_stage_key : {"label", "stft", "text"},
     unconditional : BOOLEAN,
     starts_with_sos : BOOLEAN,
     p_drop_cond : {"None", "set"},
     class_first : BOOLEAN,
     noisy : BOOLEAN]               \* self.training and self.pkeep < 1.0

\* The ids an encoder with n codes can produce: the two ends of its range.
Ends(n) == {0, n - 1}

SeqsUpTo(S, n) == UNION {[1 .. m -> S] : m \in 1 .. n}

InitForward ==
    /\ fpc = "ready"
    /\ \E a \in Args :
       \E c \in SeqsUpTo(Ends(CondStage(a.cond_stage_key, a.unconditional).vocab), MaxCondLen) :
       \E z \in SeqsUpTo(Ends(first_stage_vocab_size), MaxVisLen) :
       \E noise \in [1 .. Len(z) -> {-1} \cup (IF a.noisy THEN Ends(GptVocabSize(a)) ELSE {})] :
          /\ CondStage(a.cond_stage_key, a.unconditional).model = "SOSProvider"
                => c = <<sos_token>>
          /\ fin = [args |-> a, c |-> c, z |-> z, noise |-> noise]
    /\ fout = <<>>
    /\ dataset = <<>>
    /\ SamplerOff /\ GetitemOff /\ SampleOff

\* forward(x, c) runs; keep_cond is the outcome of random.random() > p_drop_cond.
ForwardCall ==
    /\ fpc = "ready"
    /\ \E keep_cond \in BOOLEAN :
          fout' = Forward(fin.args, fin.c, fin.z, fin.noise, keep_cond)
                      @@ [keep_cond |-> keep_cond]
    /\ fpc' = "done"
    /\ UNCHANGED <<fin, dataset, samplerVars, getitemVars, sampleVars>>

NextForward == ForwardCall

SpecForward == InitForward /\ [][NextForward]_vars

(***************************************************************************)
(* Claims about Net2NetTransformer.forward                                 *)
(***************************************************************************)

\* The place in s of the i-th visual token.
PlaceOfVisual(s, i) == CHOOSE q \in 1 .. Len(s) : s[q].src = "z" /\ s[q].k = i

\* C6: prefix cutting. In every configuration, forward's assertion holds:
\* there are as many logits left as targets; and the i-th logit left is the
\* transformer's output at the position that holds the token just before the
\* i-th visual token in cz_indices.
C6_PrefixCut ==
    fpc = "done" =>
        /\ fout.status = "ok"
        /\ Len(fout.logits) = Len(fout.target)
        /\ \A i \in 1 .. Len(fout.target) :
              /\ fout.logits[i].pos + 1 = PlaceOfVisual(fout.cz_indices, i)
              /\ fout.logits[i].at = fout.cz_indices[PlaceOfVisual(fout.cz_indices, i) - 1]

\* forward has run with an sos token after a conditioning of two tokens
\* (class_first), with the condition kept, on two visual tokens.
C6_Witness ==
    /\ fpc = "done"
    /\ StartsWithSos(fin.args) /\ fin.args.class_first
    /\ fin.args.p_drop_cond = "set" /\ fout.keep_cond
    /\ Len(fin.c) = 2 /\ Len(fin.z) = 2
    /\ fout.prefix_len = 2

\* The ids that s feeds the transformer for source r (random replacements
\* of visual tokens apart).
IdsOf(s, r) == {s[q].id : q \in {n \in 1 .. Len(s) : s[n].src = r /\ ~s[n].noised}}

\* Every id of A is below every id of B, or every one above.
Apart(A, B) == (\A x \in A, y \in B : x < y) \/ (\A x \in A, y \in B : x > y)

\* C8: token-id spaces never collide: the ids fed for the sos token, for
\* the conditioning and for the visual tokens lie in ranges apart from each
\* other, and each is smaller than the GPT vocabulary size.
C8_IdSpacesApart ==
    fpc = "done" =>
        /\ Apart(IdsOf(fout.cz_indices, "sos"), IdsOf(fout.cz_indices, "c"))
        /\ Apart(IdsOf(fout.cz_indices, "sos"), IdsOf(fout.cz_indices, "z"))
        /\ Apart(IdsOf(fout.cz_indices, "c"), IdsOf(fout.cz_indices, "z"))
        /\ \A q \in 1 .. Len(fout.cz_indices) :
              fout.cz_indices[q].id >= 0 /\ fout.cz_indices[q].id < fout.vocab

\* The same without the unconditional mode, where the SOSProvider is the
\* conditioning encoder.
IdSpacesApartWhenConditional ==
    (fpc = "done" /\ CondStage(fin.args.cond_stage_key, fin.args.unconditional).model
                        # "SOSProvider")
        => C8_IdSpacesApart

(***************************************************************************)
(* Net2NetTransformer.sample                                               *)
(***************************************************************************)
MaxSteps  == 3       \* largest steps tried
BlockSize == 5       \* self.transformer.get_block_size() tried

\* A Python index i of a sequence of length n, as a slice bound.
Bound(i, n) == IF i < 0 THEN (IF i + n < 0 THEN 0 ELSE i + n)
               ELSE (IF i > n THEN n ELSE i)

\* s[a:b]
Slice(s, a, b) == SubSeq(s, Bound(a, Len(s)) + 1, Bound(b, Len(s)))

\* s[a:]
SliceFrom(s, a) == SubSeq(s, Bound(a, Len(s)) + 1, Len(s))

\* The branch "pkeep <= 0.0": one pass over c, x and a copy of the end of c.
SinglePass(c, x) ==
    LET x1 == c \o x                                \* torch.cat((c, x), dim=1)
        noise == Slice(c, Len(x1) - Len(c), -1)     \* c.clone()[:, x.shape[1]-c.shape[1]:-1]
        x2 == x1 \o noise
        ix == [p \in 1 .. Len(x2) |-> [src |-> "new", k |-> p]]
    IN  SliceFrom(ix, Len(c) - 1)                   \* ix[:, c.shape[1]-1:]

InitSample ==
    /\ mpc = "ready"
    /\ \E lc \in 1 .. MaxCondLen, lx \in 0 .. MaxVisLen, steps \in 1 .. MaxSteps,
          pk \in {"positive", "nonpositive"} :
          margs = [c |-> [n \in 1 .. lc |-> [src |-> "c", k |-> n]],
                   x |-> [n \in 1 .. lx |-> [src |-> "x", k |-> n]],
                   steps |-> steps, pkeep |-> pk]
    /\ mx = <<>>
    /\ mk = 0
    /\ dataset = <<>>
    /\ SamplerOff /\ GetitemOff /\ ForwardOff

\* sample(x, c, steps) up to the loop, or through the single pass.
SampleCall ==
    /\ mpc = "ready"
    /\ IF margs.pkeep = "nonpositive"
       THEN /\ mx' = SinglePass(margs.c, margs.x)
            /\ mpc' = "done"
       ELSE /\ mx' = margs.c \o margs.x
            /\ mpc' = "loop"
    /\ mk' = 0
    /\ UNCHANGED <<margs, dataset, samplerVars, getitemVars, forwardVars>>

\* One pass of "for k in range(steps)".
SampleStep ==
    /\ mpc = "loop"
    /\ mk < margs.steps
    /\ IF Len(mx) <= BlockSize                      \* assert x.size(1) <= block_size
       THEN /\ mx' = Append(mx, [src |-> "new", k |-> mk + 1])
            /\ mk' = mk + 1
            /\ mpc' = "loop"
       ELSE /\ mpc' = "AssertionError"
            /\ UNCHANGED <<mx, mk>>
    /\ UNCHANGED <<margs, dataset, samplerVars, getitemVars, forwardVars>>

\* The loop is over: x[:, c.shape[1]:] is returned.
SampleReturn ==
    /\ mpc = "loop"
    /\ mk = margs.steps
    /\ mx' = SliceFrom(mx, Len(margs.c))
    /\ mpc' = "done"
    /\ UNCHANGED <<margs, mk, dataset, samplerVars, getitemVars, forwardVars>>

NextSample ==
    \/ SampleCall
    \/ SampleStep
    \/ SampleReturn

SpecSample == InitSample /\ [][NextSample]_vars

(***************************************************************************)
(* Claims about Net2NetTransformer.sample                                  *)
(***************************************************************************)

\* What is returned is x followed by exactly steps new tokens.
XThenSteps ==
    /\ Len(mx) = Len(margs.x) + margs.steps
    /\ SubSeq(mx, 1, Len(margs.x)) = margs.x
    /\ \A n \in (Len(margs.x) + 1) .. Len(mx) : mx[n].src = "new"

\* C7: sample(x, c, steps) returns the conditioning cut off and x followed
\* by exactly steps newly generated tokens, in the token-by-token branch and
\* in the single-pass branch.
C7_XThenSteps == mpc = "done" => XThenSteps

\* The same for the token-by-token branch alone.
TokenByTokenXThenSteps ==
    (mpc = "done" /\ margs.pkeep = "positive") => XThenSteps

(***************************************************************************)
(* The four components together                                            *)
(***************************************************************************)
Init == InitSampler \/ InitDataset \/ InitForward \/ InitSample

Next == NextSampler \/ NextDataset \/ NextForward \/ NextSample

Spec == Init /\ [][Next]_vars

====
